---- MODULE Spec2Model ----
(***************************************************************************)
(* Model of movie-recommender.py: the query interpreter (gpt_parse_prompt), *)
(* the discovery engine (discover_movies) and the top-level script with    *)
(* its filter merge and fallback cascade.                                  *)
(*                                                                         *)
(* Three specifications share the module:                                  *)
(*   Spec          one run of the script (merge, cascade, presentation)    *)
(*   SpecDiscover  discover_movies applied to bounded inputs               *)
(*   SpecParse     gpt_parse_prompt applied to bounded model outputs       *)
(***************************************************************************)
EXTENDS Integers, Sequences, FiniteSets, TLC

VARIABLES
    \* ---- the script run (Spec)
    catalog,      \* get_genre_ids(): genre name -> id (cached for the run)
    ui,           \* widget values: query, genres, decade, critics_only, include_adult, button
    response,     \* what the language-model provider answers in this run
    parsed,       \* the script variable `parsed` (may be undefined)
    filters,      \* script variables genres, y_start, y_end, min_score, min_runtime, max_runtime
    movies,       \* the script variable `movies`
    calls,        \* log of the discover_movies calls of the run
    infos,        \* st.info / st.error messages emitted so far
    shown,        \* what the presentation step displayed
    pc,           \* position in the script
    error,        \* the uncaught exception that ended the run, "" if none
    \* ---- discover_movies alone (SpecDiscover)
    d_in, d_out, d_pc,
    \* ---- gpt_parse_prompt alone (SpecParse)
    p_in, p_out, p_pc

vars == <<catalog, ui, response, parsed, filters, movies, calls, infos, shown, pc, error,
          d_in, d_out, d_pc, p_in, p_out, p_pc>>

run_vars == <<catalog, ui, response, parsed, filters, movies, calls, infos, shown, pc, error>>
d_vars == <<d_in, d_out, d_pc>>
p_vars == <<p_in, p_out, p_pc>>

-----------------------------------------------------------------------------
(* Bounds *)

\* longest requested genre list
MaxGenres == 2

\* longest model output, in tokens
MaxTextLen == 6

-----------------------------------------------------------------------------
(* Python values *)

\* None, and a present value v, of an optional argument
None == <<>>

Some(v) == <<v>>

\* Python truthiness of an optional number (None and 0 are falsy)
TruthyNum(x) == x # None /\ x[1] # 0

\* Python truthiness of an optional string (None and "" are falsy)
TruthyStr(x) == x # None /\ x[1] # ""

\* `not movies` / `if genres` on a list
Empty(l) == Len(l) = 0

\* all sequences over S of length <= n without repeated elements
SeqsUpTo(S, n) ==
    {s \in UNION {[1..k -> S] : k \in 0..n} :
        \A i, j \in 1..Len(s) : i # j => s[i] # s[j]}

GenreLists(S) == SeqsUpTo(S, MaxGenres)

-----------------------------------------------------------------------------
(* Reference data: get_genre_ids *)

\* the mapping as a set of (name, id) entries; names and ids are unique
Entry(n, i) == [name |-> n, id |-> i]

FullCatalog == {Entry("Action", 28), Entry("Comedy", 35)}

\* the provider answered without a "genres" key: .get("genres", []) gives {}
EmptyCatalog == {}

Catalogs == {FullCatalog, EmptyCatalog}

\* genre_list = list(get_genre_ids().keys())
Keys(cat) == {e.name : e \in cat}

\* genre_id_map[g]
IdOf(cat, g) == (CHOOSE e \in cat : e.name = g).id

\* names a language model may return; "Noir" is in no catalog
GenreNames == {"Action", "Comedy", "Noir"}

-----------------------------------------------------------------------------
(* Movies and provider pages *)

Date(y) == [kind |-> "date", year |-> y]

MissingDate == [kind |-> "missing", year |-> 0]

EmptyDate == [kind |-> "empty", year |-> 0]

UnparsableDate == [kind |-> "unparsable", year |-> 0]

Movie(i, d, g, p) == [id |-> i, release_date |-> d, genre_ids |-> g, popularity |-> p]

\* what the provider holds on each of its pages
PageMovies(page) ==
    CASE page = 1 -> <<Movie(11, Date(2015), <<28>>, 3), Movie(12, MissingDate, <<35, 28>>, 9)>>
      [] page = 2 -> <<Movie(21, Date(2019), <<35>>, 9)>>
      [] page = 3 -> <<Movie(31, EmptyDate, <<28>>, 1), Movie(32, Date(2020), <<99>>, 4)>>
      [] page = 4 -> <<Movie(41, UnparsableDate, <<28>>, 2)>>
      [] OTHER    -> <<Movie(51, Date(2010), <<28, 35>>, 3)>>

\* one page fetch: the request raises, the JSON body has no "results" key, or a list
Raises == [kind |-> "raise", results |-> <<>>]

NoResultsKey == [kind |-> "no_results_key", results |-> <<>>]

Ok(l) == [kind |-> "ok", results |-> l]

-----------------------------------------------------------------------------
(* discover_movies *)

\* for page in range(1, 6)
NumPages == 5

PageOutcome(kind, page) ==
    CASE kind = "raise"          -> Raises
      [] kind = "no_results_key" -> NoResultsKey
      [] kind = "empty"          -> Ok(<<>>)
      [] OTHER                   -> Ok(PageMovies(page))

\* the provider's behaviour during one discover_movies call, page by page
Pages(kinds) == [page \in 1..NumPages |-> PageOutcome(kinds[page], page)]

\* provider behaviours tried for discover_movies alone
DiscoverPages == {Pages(k) : k \in [1..NumPages -> {"raise", "empty", "full"}]}

\* provider behaviours tried for each call of a script run
RunPages ==
    {Pages([page \in 1..NumPages |-> "empty"]),
     Pages([page \in 1..NumPages |-> IF page <= 2 THEN "full" ELSE "no_results_key"]),
     Pages([page \in 1..NumPages |-> IF page = 2 THEN "raise" ELSE "full"]),
     Pages([page \in 1..NumPages |-> IF page = 4 THEN "full" ELSE "empty"])}

FilterArgs(g, ys, ye, sc, ce, rmin, rmax, ad) ==
    [genres |-> g, year_start |-> ys, year_end |-> ye, min_score |-> sc,
     certification |-> ce, min_runtime |-> rmin, max_runtime |-> rmax,
     include_adult |-> ad]

\* genre_ids = [str(genre_id_map[g]) for g in genres if g in genre_id_map]
ResolveGenres(genres, cat) ==
    LET known == SelectSeq(genres, LAMBDA g : g \in Keys(cat))
    IN  [i \in 1..Len(known) |-> IdOf(cat, known[i])]

ParamKeys ==
    {"api_key", "language", "sort_by", "include_adult", "with_genres",
     "vote_average.gte", "certification_country", "certification.lte",
     "with_runtime.gte", "with_runtime.lte"}

\* base_params: every key with its value, None where the code puts None
BuildParams(a, cat) ==
    LET genre_ids == ResolveGenres(a.genres, cat)
    IN  [k \in ParamKeys |->
            CASE k = "api_key"               -> Some("API_KEY")
              [] k = "language"              -> Some("en-US")
              [] k = "sort_by"               -> Some("popularity.desc")
              [] k = "include_adult"         -> Some(a.include_adult)
              [] k = "with_genres"           -> IF ~Empty(genre_ids) THEN Some(genre_ids) ELSE None
              [] k = "vote_average.gte"      -> a.min_score
              [] k = "certification_country" -> Some("US")
              [] k = "certification.lte"     -> a.certification
              [] k = "with_runtime.gte"      -> a.min_runtime
              [] k = "with_runtime.lte"      -> a.max_runtime]

\* params={k: v for k, v in base_params.items() if v is not None}, with "page"
SentKeys(params) == {k \in DOMAIN params : params[k] # None} \cup {"page"}

RECURSIVE FetchPages(_, _, _)
\* the page loop: a raising fetch propagates out of the loop
FetchPages(resp, page, acc) ==
    IF page > NumPages THEN acc
    ELSE LET r   == resp[page]
             req == Append(acc.requested, page)
         IN  IF r.kind = "raise"
             THEN [raised |-> TRUE, requested |-> req, results |-> acc.results]
             ELSE FetchPages(resp, page + 1,
                     [raised    |-> FALSE,
                      requested |-> req,
                      results   |-> acc.results \o
                                    (IF r.kind = "ok" THEN r.results ELSE <<>>)])

\* m.get("release_date", "") is truthy
HasDateText(m) == m.release_date.kind \in {"date", "unparsable"}

\* the year post-filter; int() of an unparsable date raises ValueError
YearFilter(results, ys, ye) ==
    IF TruthyNum(ys) /\ TruthyNum(ye)
    THEN IF \E i \in 1..Len(results) : results[i].release_date.kind = "unparsable"
         THEN [raised |-> TRUE, results |-> <<>>]
         ELSE [raised  |-> FALSE,
               results |-> SelectSeq(results,
                              LAMBDA m : /\ HasDateText(m)
                                         /\ ys[1] <= m.release_date.year
                                         /\ m.release_date.year <= ye[1])]
    ELSE [raised |-> FALSE, results |-> results]

\* reverse_genre_map.get(id) is one of the requested names
MapsBack(m, genres, cat) ==
    \E i \in 1..Len(m.genre_ids), j \in 1..Len(genres) :
        \E e \in cat : e.id = m.genre_ids[i] /\ e.name = genres[j]

\* the genre post-filter
GenreFilter(results, genres, cat) ==
    IF ~Empty(genres)
    THEN SelectSeq(results, LAMBDA m : MapsBack(m, genres, cat))
    ELSE results

\* put m behind every element whose popularity is at least its own
InsertByPopularity(sorted, m) ==
    LET k == Cardinality({i \in 1..Len(sorted) : sorted[i].popularity >= m.popularity})
    IN  SubSeq(sorted, 1, k) \o <<m>> \o SubSeq(sorted, k + 1, Len(sorted))

RECURSIVE SortFrom(_, _, _)
SortFrom(l, i, acc) ==
    IF i > Len(l) THEN acc ELSE SortFrom(l, i + 1, InsertByPopularity(acc, l[i]))

\* results.sort(key=popularity, reverse=True): stable, descending
SortByPopularity(l) == SortFrom(l, 1, <<>>)

\* the whole function; raised tells that an exception left it
discover_movies(a, cat, resp) ==
    LET params == BuildParams(a, cat)
        fetch  == FetchPages(resp, 1, [raised |-> FALSE, requested |-> <<>>, results |-> <<>>])
        byyear == IF fetch.raised THEN [raised |-> TRUE, results |-> <<>>]
                  ELSE YearFilter(fetch.results, a.year_start, a.year_end)
        raised == fetch.raised \/ byyear.raised
    IN  [raised     |-> raised,
         exception  |-> IF fetch.raised THEN "RequestException"
                        ELSE IF byyear.raised THEN "ValueError" ELSE "",
         sent       |-> SentKeys(params),
         requested  |-> fetch.requested,
         fetched    |-> fetch.results,
         after_year |-> byyear.results,
         results    |-> IF raised THEN <<>>
                        ELSE SortByPopularity(GenreFilter(byyear.results, a.genres, cat))]

-----------------------------------------------------------------------------
(* gpt_parse_prompt *)

\* a JSON object of the model: a missing key and null both read as None with
\* .get(); a missing, null or empty "genres" reads as the empty list
Dict(g, ys, ye, sc, ce, rmin, rmax) ==
    [genres |-> g, year_start |-> ys, year_end |-> ye, min_score |-> sc,
     certification |-> ce, min_runtime |-> rmin, max_runtime |-> rmax]

\* {}
EmptyDict == Dict(<<>>, None, None, None, None, None, None)

\* The model's text, cut into tokens: the fence with the json tag, the fence
\* alone, prose, a JSON value that is no object, a JSON object
Tok(t) == [t |-> t, v |-> EmptyDict]

FenceJson == Tok("fence_json")

Fence == Tok("fence")

Prose == Tok("prose")

Array == Tok("array")

Obj(d) == [t |-> "object", v |-> d]

\* "```json" in text
HasFenceJson(text) == \E i \in 1..Len(text) : text[i].t = "fence_json"

\* text.strip().split("```json")[-1]
AfterLastFenceJson(text) ==
    LET last == CHOOSE i \in 1..Len(text) :
                    /\ text[i].t = "fence_json"
                    /\ \A j \in (i + 1)..Len(text) : text[j].t # "fence_json"
    IN  SubSeq(text, last + 1, Len(text))

\* s.split("```")[0]
BeforeFirstFence(s) ==
    IF \E i \in 1..Len(s) : s[i].t \in {"fence", "fence_json"}
    THEN LET first == CHOOSE i \in 1..Len(s) :
                          /\ s[i].t \in {"fence", "fence_json"}
                          /\ \A j \in 1..(i - 1) : s[j].t \notin {"fence", "fence_json"}
         IN  SubSeq(s, 1, first - 1)
    ELSE s

\* json_text = ... if "```json" in text else text
ExtractJsonText(text) ==
    IF HasFenceJson(text) THEN BeforeFirstFence(AfterLastFenceJson(text)) ELSE text

\* json.loads: the text must be exactly one JSON value
JsonLoads(s) ==
    IF Len(s) = 1 /\ s[1].t \in {"object", "array"}
    THEN [ok |-> TRUE, isdict |-> s[1].t = "object", value |-> s[1].v]
    ELSE [ok |-> FALSE, isdict |-> FALSE, value |-> EmptyDict]

ParseResult(r, x, w, isd, v, jt) ==
    [raised |-> r, exception |-> x, warned |-> w, isdict |-> isd, value |-> v,
     json_text |-> jt]

\* the provider's answer to invoke_model
Answer(k, text) == [kind |-> k, text |-> text]

\* invoke_model and the read of its body sit before the try; the except
\* covers the indexing of the result, the extraction and json.loads
gpt_parse_prompt(resp) ==
    CASE resp.kind = "invoke_fails" ->
            ParseResult(TRUE, "ClientError", FALSE, FALSE, EmptyDict, <<>>)
      [] resp.kind = "body_not_json" ->
            ParseResult(TRUE, "JSONDecodeError", FALSE, FALSE, EmptyDict, <<>>)
      [] resp.kind = "bad_shape" ->
            ParseResult(FALSE, "", TRUE, TRUE, EmptyDict, <<>>)
      [] OTHER ->
            LET json_text == ExtractJsonText(resp.text)
                loaded    == JsonLoads(json_text)
            IN  IF loaded.ok
                THEN ParseResult(FALSE, "", FALSE, loaded.isdict, loaded.value, json_text)
                ELSE ParseResult(FALSE, "", TRUE, TRUE, EmptyDict, json_text)

-----------------------------------------------------------------------------
(* The script: widgets, filter merge, fallback cascade, presentation *)

\* min_score = 7.0 if critics_only else None
CriticsMinScore == 7

Decades == {"Any", "1970s", "1980s", "1990s", "2000s", "2010s", "2020s"}

\* decade_range
DecadeRange(d) ==
    CASE d = "1970s" -> <<Some(1970), Some(1979)>>
      [] d = "1980s" -> <<Some(1980), Some(1989)>>
      [] d = "1990s" -> <<Some(1990), Some(1999)>>
      [] d = "2000s" -> <<Some(2000), Some(2009)>>
      [] d = "2010s" -> <<Some(2010), Some(2019)>>
      [] d = "2020s" -> <<Some(2020), Some(2025)>>
      [] OTHER       -> <<None, None>>

\* the script variables set from the widgets alone (lines 134-154)
ManualFilters(u) ==
    [genres      |-> u.genres,
     y_start     |-> DecadeRange(u.decade)[1],
     y_end       |-> DecadeRange(u.decade)[2],
     min_score   |-> IF u.critics_only THEN Some(CriticsMinScore) ELSE None,
     min_runtime |-> None,
     max_runtime |-> None]

\* the merge of the parsed dict into the script variables (lines 160-168)
MergeFilters(f, u, d) ==
    LET years == u.decade = "Any" /\ TruthyNum(d.year_start) /\ TruthyNum(d.year_end)
    IN  [genres      |-> IF Empty(f.genres) /\ ~Empty(d.genres) THEN d.genres ELSE f.genres,
         y_start     |-> IF years THEN d.year_start ELSE f.y_start,
         y_end       |-> IF years THEN d.year_end ELSE f.y_end,
         min_score   |-> IF ~TruthyNum(f.min_score) /\ TruthyNum(d.min_score)
                         THEN d.min_score ELSE f.min_score,
         min_runtime |-> d.min_runtime,
         max_runtime |-> d.max_runtime]

Undefined == [defined |-> FALSE, isdict |-> FALSE, value |-> EmptyDict]

Defined(isd, v) == [defined |-> TRUE, isdict |-> isd, value |-> v]

\* parsed.get("certification")
ParsedCertification == parsed.value.certification

\* the arguments of the five calls (lines 172-177, 182-187, 192-197, 202-206, 211-215)
FullArgs ==
    FilterArgs(filters.genres, filters.y_start, filters.y_end, filters.min_score,
               ParsedCertification, filters.min_runtime, filters.max_runtime,
               ui.include_adult)

DropScoreArgs ==
    FilterArgs(filters.genres, filters.y_start, filters.y_end, None,
               ParsedCertification, filters.min_runtime, filters.max_runtime,
               ui.include_adult)

\* a fallback 2 that passes the critic score again
DropRuntimeArgsKeepsScore ==
    FilterArgs(filters.genres, filters.y_start, filters.y_end, filters.min_score,
               ParsedCertification, None, None, ui.include_adult)

DropRuntimeArgs ==
    FilterArgs(filters.genres, filters.y_start, filters.y_end, None,
               ParsedCertification, None, None, ui.include_adult)

DropCertificationArgs ==
    FilterArgs(filters.genres, filters.y_start, filters.y_end, None,
               None, None, None, ui.include_adult)

SingleGenreArgs ==
    FilterArgs(<<filters.genres[1]>>, filters.y_start, filters.y_end, None,
               None, None, None, ui.include_adult)

\* the guards of the four fallbacks (lines 180, 190, 200, 209)
DropScoreGuard == Empty(movies)

\* a fallback 2 that runs whatever fallback 1 found
DropRuntimeGuardAlways == TRUE

DropRuntimeGuard == Empty(movies)

DropCertificationGuard == Empty(movies) /\ TruthyStr(ParsedCertification)

SingleGenreGuard == Empty(movies) /\ ~Empty(filters.genres)

\* an uncaught exception ends the run
Crash(x) == pc' = "crashed" /\ error' = x

\* movies = discover_movies(...): the call is logged; an exception leaves the script
Call(state, a, next) ==
    \E resp \in RunPages :
        LET out == discover_movies(a, catalog, resp)
        IN  /\ calls' = Append(calls, [state |-> state, args |-> a, out |-> out])
            /\ IF out.raised
               THEN Crash(out.exception) /\ UNCHANGED movies
               ELSE movies' = out.results /\ pc' = next /\ UNCHANGED error

\* what the language model may answer in a run
ParsedDicts ==
    {Dict(g, y[1], y[2], sc, ce, r[1], r[2]) :
        g  \in GenreLists(GenreNames),
        y  \in {<<None, None>>, <<Some(2010), Some(2019)>>},
        sc \in {None, Some(8)},
        ce \in {None, Some("PG")},
        r  \in {<<None, None>>, <<Some(90), Some(120)>>}}

RunAnswers ==
    {Answer("invoke_fails", <<>>), Answer("body_not_json", <<>>),
     Answer("bad_shape", <<>>), Answer("text", <<Prose>>),
     Answer("text", <<FenceJson, Array, Fence>>)}
    \cup {Answer("text", <<FenceJson, Obj(d), Fence>>) : d \in ParsedDicts}

RunWidgets(cat) ==
    [query         : {"", "action movie for kids"},
     genres        : GenreLists(Keys(cat)),
     decade        : {"Any", "2010s"},
     critics_only  : BOOLEAN,
     include_adult : BOOLEAN,
     button        : BOOLEAN]

\* the script has read its widgets and set its variables (lines 130-154)
InitRun ==
    /\ catalog \in Catalogs
    /\ ui \in RunWidgets(catalog)
    /\ response = Answer("none", <<>>)
    /\ parsed = Undefined
    /\ filters = ManualFilters(ui)
    /\ movies = <<>>
    /\ calls = <<>>
    /\ infos = <<>>
    /\ shown = "nothing"
    /\ pc = "interpret"
    /\ error = ""

\* if query: parsed = gpt_parse_prompt(query), then the merge (lines 156-168)
Interpret ==
    /\ pc = "interpret"
    /\ UNCHANGED <<catalog, ui, movies, calls, shown, d_vars, p_vars>>
    /\ IF ui.query = ""
       THEN pc' = "Full" /\ UNCHANGED <<response, parsed, filters, infos, error>>
       ELSE \E resp \in RunAnswers :
              LET r == gpt_parse_prompt(resp)
              IN  /\ response' = resp
                  /\ infos' = IF r.warned THEN Append(infos, "parse_error") ELSE infos
                  /\ IF r.raised
                     THEN Crash(r.exception) /\ UNCHANGED <<parsed, filters>>
                     ELSE /\ parsed' = Defined(r.isdict, r.value)
                          /\ IF r.isdict
                             THEN /\ filters' = MergeFilters(filters, ui, r.value)
                                  /\ pc' = "Full"
                                  /\ UNCHANGED error
                             ELSE Crash("AttributeError") /\ UNCHANGED filters

\* if st.button(...): the first call (lines 170-177)
Full ==
    /\ pc = "Full"
    /\ UNCHANGED <<catalog, ui, response, parsed, filters, infos, shown, d_vars, p_vars>>
    /\ IF ~ui.button
       THEN pc' = "done" /\ UNCHANGED <<movies, calls, error>>
       ELSE IF ~parsed.defined
            THEN Crash("NameError") /\ UNCHANGED <<movies, calls>>
            ELSE Call("Full", FullArgs, "DropScore")

\* one fallback: its guard, its message, its call
Fallback(state, guard, message, a, next) ==
    /\ pc = state
    /\ UNCHANGED <<catalog, ui, response, parsed, filters, shown, d_vars, p_vars>>
    /\ IF guard
       THEN infos' = Append(infos, message) /\ Call(state, a, next)
       ELSE pc' = next /\ UNCHANGED <<movies, calls, infos, error>>

DropScore ==
    Fallback("DropScore", DropScoreGuard, "without_score", DropScoreArgs, "DropRuntime")

DropRuntime ==
    Fallback("DropRuntime", DropRuntimeGuard, "without_runtime", DropRuntimeArgs,
             "DropCertification")

DropCertification ==
    Fallback("DropCertification", DropCertificationGuard, "without_certification",
             DropCertificationArgs, "SingleGenre")

SingleGenre ==
    Fallback("SingleGenre", SingleGenreGuard, "one_genre", SingleGenreArgs, "present")

\* display_movies(movies, genres) or the warning (lines 217-220); what the
\* rendering of a movie does with its fields is outside the model
Present ==
    /\ pc = "present"
    /\ shown' = IF ~Empty(movies) THEN "results" ELSE "no_results_warning"
    /\ pc' = "done"
    /\ UNCHANGED <<catalog, ui, response, parsed, filters, movies, calls, infos, error,
                   d_vars, p_vars>>

-----------------------------------------------------------------------------
(* discover_movies and gpt_parse_prompt applied alone *)

NoOutput == [raised |-> FALSE]

IdleDiscover == d_in = NoOutput /\ d_out = NoOutput /\ d_pc = "off"

IdleParse == p_in = NoOutput /\ p_out = NoOutput /\ p_pc = "off"

IdleRun ==
    /\ catalog = EmptyCatalog
    /\ ui = NoOutput
    /\ response = Answer("none", <<>>)
    /\ parsed = Undefined
    /\ filters = NoOutput
    /\ movies = <<>>
    /\ calls = <<>>
    /\ infos = <<>>
    /\ shown = "nothing"
    /\ pc = "off"
    /\ error = ""

DiscoverInputs ==
    [args  : {FilterArgs(g, y[1], y[2], sc, ce, rmin, rmax, ad) :
                 g    \in GenreLists({"Action", "Noir"}),
                 y    \in {<<None, None>>, <<Some(2010), Some(2019)>>, <<Some(2010), None>>},
                 sc   \in {None, Some(CriticsMinScore)},
                 ce   \in {None, Some("PG")},
                 rmin \in {None, Some(90)},
                 rmax \in {None, Some(120)},
                 ad   \in {FALSE}},
     cat   : Catalogs,
     pages : DiscoverPages]

InitDiscover == d_in \in DiscoverInputs /\ d_out = NoOutput /\ d_pc = "call"

DiscoverCall ==
    /\ d_pc = "call"
    /\ d_out' = discover_movies(d_in.args, d_in.cat, d_in.pages)
    /\ d_pc' = "returned"
    /\ UNCHANGED <<d_in, run_vars, p_vars>>

ParseTokens == {FenceJson, Fence, Prose, Obj(EmptyDict),
                Obj(Dict(<<"Comedy">>, None, None, None, None, None, None))}

ParseInputs ==
    {Answer("text", t) : t \in UNION {[1..n -> ParseTokens] : n \in 0..MaxTextLen}}

InitParse == p_in \in ParseInputs /\ p_out = NoOutput /\ p_pc = "call"

ParseCall ==
    /\ p_pc = "call"
    /\ p_out' = gpt_parse_prompt(p_in)
    /\ p_pc' = "returned"
    /\ UNCHANGED <<p_in, run_vars, d_vars>>

-----------------------------------------------------------------------------
(* Specifications *)

Init == InitRun /\ IdleDiscover /\ IdleParse

Next ==
    \/ Interpret
    \/ Full
    \/ DropScore
    \/ DropRuntime
    \/ DropCertification
    \/ SingleGenre
    \/ Present

Spec == Init /\ [][Next]_vars

InitD == IdleRun /\ InitDiscover /\ IdleParse

NextD == DiscoverCall

SpecDiscover == InitD /\ [][NextD]_vars

InitP == IdleRun /\ IdleDiscover /\ InitParse

NextP == ParseCall

SpecParse == InitP /\ [][NextP]_vars

-----------------------------------------------------------------------------
(* Properties of a script run (Spec) *)

StageIndex(state) ==
    CASE state = "Full"              -> 1
      [] state = "DropScore"         -> 2
      [] state = "DropRuntime"       -> 3
      [] state = "DropCertification" -> 4
      [] OTHER                       -> 5

States(log) == [i \in 1..Len(log) |-> log[i].state]

ReturnedEmpty(c) == ~c.out.raised /\ Empty(c.out.results)

\* C1: the discover calls of a run are made in the fixed order
\* Full, DropScore, DropRuntime, DropCertification, SingleGenre, starting with
\* Full and with no state twice; a call is made only if every earlier call
\* returned an empty list; the list the presentation step gets is the result
\* of the last call made.
C1_CascadeOrder ==
    /\ Len(calls) > 0 => calls[1].state = "Full"
    /\ \A i, j \in 1..Len(calls) :
          i < j => /\ StageIndex(calls[i].state) < StageIndex(calls[j].state)
                   /\ ReturnedEmpty(calls[i])
    /\ (pc \in {"present", "done"} /\ ui.button) =>
          /\ Len(calls) > 0
          /\ ~calls[Len(calls)].out.raised
          /\ movies = calls[Len(calls)].out.results
    /\ (shown = "results") => (pc = "done" /\ ~Empty(movies))
    /\ (shown = "no_results_warning") => (pc = "done" /\ Empty(movies))

\* a run whose third call found the movies that were displayed
C1_Witness ==
    /\ pc = "done"
    /\ shown = "results"
    /\ States(calls) = <<"Full", "DropScore", "DropRuntime">>

RelaxableFields == {"min_score", "min_runtime", "max_runtime", "certification"}

\* C2: between an earlier and a later call of one run, a relaxable filter
\* that was unset stays unset, the genre list is the same or only its first
\* element, and the years and include_adult are the same.
C2_RelaxationsAccumulate ==
    \A i, j \in 1..Len(calls) :
        i < j =>
            LET a == calls[i].args
                b == calls[j].args
            IN  /\ \A f \in RelaxableFields : a[f] = None => b[f] = None
                /\ \/ b.genres = a.genres
                   \/ ~Empty(a.genres) /\ b.genres = <<a.genres[1]>>
                /\ b.year_start = a.year_start
                /\ b.year_end = a.year_end
                /\ b.include_adult = a.include_adult

\* a run of all five calls that started with every relaxable filter set and
\* two genres
C2_Witness ==
    /\ Len(calls) = 5
    /\ \A f \in RelaxableFields : calls[1].args[f] # None
    /\ Len(calls[1].args.genres) = 2
    /\ Len(calls[5].args.genres) = 1

ExpectedStates ==
    <<"Full", "DropScore", "DropRuntime">>
    \o (IF ParsedCertification # None THEN <<"DropCertification">> ELSE <<>>)
    \o <<"SingleGenre">>

\* C3: a completed run in which every call returned an empty list made one
\* call in Full, DropScore, DropRuntime and SingleGenre, one in
\* DropCertification exactly when certification was set, and shows the
\* "no results" notice; for every filter set, the empty genre list included.
C3_EveryStageWhenEmpty ==
    (/\ pc = "done"
     /\ ui.button
     /\ \A i \in 1..Len(calls) : ReturnedEmpty(calls[i]))
    => /\ States(calls) = ExpectedStates
       /\ shown = "no_results_warning"

\* C4: a Recommend action with an empty query and any manual filters runs the
\* cascade with certification and the runtimes unset and completes with the
\* results or the "no results" notice, never with an uncaught error.
C4_EmptyQueryCompletes ==
    (ui.query = "" /\ ui.button /\ pc \notin {"interpret", "Full"})
    => /\ pc # "crashed"
       /\ Len(calls) > 0
       /\ calls[1].args.certification = None
       /\ calls[1].args.min_runtime = None
       /\ calls[1].args.max_runtime = None
       /\ pc = "done" => shown \in {"results", "no_results_warning"}

\* the failure kinds of the interpreter: the provider call fails, the body is
\* not of the expected shape, the text is no valid JSON, the JSON is no object
ParseFailure(resp) ==
    \/ resp.kind \in {"invoke_fails", "body_not_json", "bad_shape"}
    \/ /\ resp.kind = "text"
       /\ LET loaded == JsonLoads(ExtractJsonText(resp.text))
          IN  ~loaded.ok \/ ~loaded.isdict

\* C5: for every failure kind gpt_parse_prompt does not raise, returns {} and
\* warns the user, and the merge goes on with the manual filters alone.
C5_InterpretNeverRaises ==
    (pc # "interpret" /\ ParseFailure(response))
    => /\ error \notin {"ClientError", "JSONDecodeError", "AttributeError"}
       /\ parsed = Defined(TRUE, EmptyDict)
       /\ infos # <<>> /\ infos[1] = "parse_error"
       /\ filters = ManualFilters(ui)

NoneInCatalog(genres) == \A i \in 1..Len(genres) : genres[i] \notin Keys(catalog)

\* C10: when the requested genre list is not empty and none of its names is
\* in the catalog, no call sends with_genres and every call returns an empty
\* list, so the run ends with every stage tried and the "no results" notice.
C10_UnknownGenresExhaust ==
    (/\ pc \notin {"interpret", "Full"}
     /\ ui.button
     /\ ~Empty(filters.genres)
     /\ NoneInCatalog(filters.genres))
    => /\ \A i \in 1..Len(calls) :
             "with_genres" \notin calls[i].out.sent /\ ReturnedEmpty(calls[i])
       /\ pc # "crashed"
       /\ pc = "done" => shown = "no_results_warning" /\ States(calls) = ExpectedStates

-----------------------------------------------------------------------------
(* Properties of discover_movies (SpecDiscover) *)

IsRaise(pages, page) == pages[page].kind = "raise"

\* the first page whose fetch fails, NumPages + 1 if none does
FirstFailure(pages) ==
    IF \E page \in 1..NumPages : IsRaise(pages, page)
    THEN CHOOSE page \in 1..NumPages :
            IsRaise(pages, page) /\ \A q \in 1..(page - 1) : ~IsRaise(pages, q)
    ELSE NumPages + 1

RECURSIVE ConcatPages(_, _)
\* the results of pages 1..n, in page order
ConcatPages(pages, n) ==
    IF n = 0 THEN <<>> ELSE ConcatPages(pages, n - 1) \o pages[n].results

\* C6: pages 1..5 are requested in ascending order and concatenated in page
\* order; when the fetch of page k fails no later page is requested,
\* discover_movies does not raise, and it goes on with pages 1..k-1.
C6_FailedPageKeepsEarlier ==
    d_pc = "returned" =>
        LET k == FirstFailure(d_in.pages)
        IN  /\ d_out.requested = [i \in 1..(IF k > NumPages THEN NumPages ELSE k) |-> i]
            /\ d_out.fetched = ConcatPages(d_in.pages, k - 1)
            /\ d_out.exception # "RequestException"

\* C7: a filter parameter is in the request exactly when its field was set:
\* vote_average.gte with min_score, with_runtime.gte with min_runtime,
\* with_runtime.lte with max_runtime, the certification parameters with
\* certification, with_genres with a requested genre that resolved to an id.
C7_ParameterIffFieldSet ==
    d_pc = "returned" =>
        LET a    == d_in.args
            sent == d_out.sent
        IN  /\ "vote_average.gte" \in sent <=> a.min_score # None
            /\ "with_runtime.gte" \in sent <=> a.min_runtime # None
            /\ "with_runtime.lte" \in sent <=> a.max_runtime # None
            /\ "certification.lte" \in sent <=> a.certification # None
            /\ "certification_country" \in sent <=> a.certification # None
            /\ "with_genres" \in sent <=>
                  \E i \in 1..Len(a.genres) : a.genres[i] \in Keys(d_in.cat)

InRange(m, ys, ye) ==
    /\ m.release_date.kind = "date"
    /\ ys[1] <= m.release_date.year
    /\ m.release_date.year <= ye[1]

\* C8: with both years set the year filter keeps exactly the fetched movies
\* whose release year is within the bounds, both included, and drops a
\* movie whose date is missing, empty or unparsable without raising; with a
\* year unset it removes nothing.
C8_YearFilter ==
    (d_pc = "returned" /\ d_out.exception # "RequestException") =>
        LET a == d_in.args
        IN  IF a.year_start # None /\ a.year_end # None
            THEN /\ d_out.exception # "ValueError"
                 /\ d_out.after_year =
                       SelectSeq(d_out.fetched,
                                 LAMBDA m : InRange(m, a.year_start, a.year_end))
            ELSE d_out.after_year = d_out.fetched

-----------------------------------------------------------------------------
(* Properties of gpt_parse_prompt (SpecParse) *)

IsFence(tok) == tok.t \in {"fence", "fence_json"}

Fences(text) == {i \in 1..Len(text) : IsFence(text[i])}

Least(S) == CHOOSE i \in S : \A j \in S : i <= j

\* the content of the first fenced block: from its opening fence to the next
FirstBlock(text) ==
    LET open  == Least(Fences(text))
        close == Least(Fences(text) \ {open})
    IN  SubSeq(text, open + 1, close - 1)

\* C9: when the model's text holds a fenced block, the text given to the
\* JSON parser is the content of the first one, also when there are several;
\* when it holds no fence, the raw text is parsed.
C9_FirstFencedBlock ==
    p_pc = "returned" =>
        /\ Cardinality(Fences(p_in.text)) >= 2 => p_out.json_text = FirstBlock(p_in.text)
        /\ Fences(p_in.text) = {} => p_out.json_text = p_in.text

====
